---- MODULE Spec2Model ----
(***************************************************************************)
(* Model of librustc_mir/monomorphize/deduplicate_instances.rs:            *)
(* collapse_interchangable_instances (the guard and the rewriting of the   *)
(* substs) and used_substs_for_instance (the usage classifier), run by a   *)
(* driver that hands instances of one function to the canonicalizer one    *)
(* after another.                                                          *)
(***************************************************************************)
EXTENDS Integers, Sequences, FiniteSets, TLC

\* ------------------------------------------------------------------ bounds
\* Largest number of generic-parameter slots of a function (parent + own).
MaxParams == 2
\* Deepest nesting of a parameter reference inside a type of the body.
MaxDepth == 1
\* Arguments an ill-formed instance may have more or fewer than its slots.
MaxSkew == 1

\* ------------------------------------------------------------------- types
\* A type (ty.sty) is a tuple headed by its variant.
Int32 == <<"Int32">>
Int64 == <<"Int64">>
Unit == <<"Unit">>
Param(idx) == <<"Param", idx>>
Ref(ty) == <<"Ref", ty>>
Tuple(a, b) == <<"Tuple", a, b>>
FnPtr(a, b) == <<"FnPtr", a, b>>
\* The two erasure markers made by the canonicalizer.
UnusedParam == <<"UnusedParam">>
LayoutOnlyParam(size, align) == <<"LayoutOnlyParam", size, align>>

\* Kind: a substitution is a type or a region.
TypeKind(ty) == <<"Type", ty>>
RegionKind(r) == <<"Lifetime", r>>
IsTypeKind(subst) == subst[1] = "Type"

\* ParamUsage, ordered as the enum's discriminants.
ParamUsage == {"Unused", "LayoutUsed", "Used"}

\* ParamsUsage::new(len): every entry Unused.  ParamIdx(i) is entry i + 1.
ParamsUsage_new(len) == [parameters |-> [i \in 1..len |-> "Unused"]]

\* The children super_fold_with descends into.
Children(ty) ==
    CASE ty[1] = "Ref" -> <<ty[2]>>
      [] ty[1] = "Tuple" -> <<ty[2], ty[3]>>
      [] ty[1] = "FnPtr" -> <<ty[2], ty[3]>>
      [] OTHER -> <<>>

RECURSIVE needs_subst(_)
\* ty.needs_subst(): the type mentions a generic parameter somewhere.
needs_subst(ty) ==
    \/ ty[1] = "Param"
    \/ \E k \in 1..Len(Children(ty)) : needs_subst(Children(ty)[k])

RECURSIVE ParamsIn(_)
\* The slots a type refers to by a bare ty::Param, at any depth.
ParamsIn(ty) ==
    IF ty[1] = "Param" THEN {ty[2]}
    ELSE UNION {ParamsIn(Children(ty)[k]) : k \in 1..Len(Children(ty))}

\* --------------------------------------------------- SubstsVisitor (fold)
\* The visitor's table (field .2); ice: an index past the table's end has
\* panicked (IndexVec bounds check), which aborts the compilation.
MkVisitor(parameters) == [parameters |-> parameters, ice |-> FALSE]

\* A visitor seeded from the arguments: a slot whose argument is wider than
\* four bytes starts Used.
new_visitor_by_arg(inst) ==
    MkVisitor([k \in 1..Len(inst.substs) |->
                 IF IsTypeKind(inst.substs[k]) /\ inst.substs[k][2] = Int64
                 THEN "Used" ELSE "Unused"])

\* SubstsVisitor(tcx, mir, ParamsUsage::new(instance.substs.len()))
new_visitor(inst) == MkVisitor(ParamsUsage_new(Len(inst.substs)).parameters)

\* The assignment with the wrong level: LayoutUsed for Used.
SetLayoutUsed(v, idx) ==
    IF idx + 1 \in DOMAIN v.parameters
    THEN [v EXCEPT !.parameters[idx + 1] = "LayoutUsed"]
    ELSE [v EXCEPT !.ice = TRUE]

\* parameters[ParamIdx(idx)] = ParamUsage::Used
SetUsed(v, idx) ==
    IF idx + 1 \in DOMAIN v.parameters
    THEN [v EXCEPT !.parameters[idx + 1] = "Used"]
    ELSE [v EXCEPT !.ice = TRUE]

RECURSIVE fold_ty(_, _)
RECURSIVE FoldTys(_, _)

\* ty.super_fold_with(self): fold every component type.
super_fold_with(v, ty) == FoldTys(v, Children(ty))

\* fold_ty without the descent into the type's components.
fold_ty_shallow(v, ty) ==
    IF v.ice \/ ~needs_subst(ty) THEN v
    ELSE IF ty[1] = "Param" THEN SetUsed(v, ty[2]) ELSE v

\* TypeFolder::fold_ty of SubstsVisitor.
fold_ty(v, ty) ==
    IF v.ice \/ ~needs_subst(ty) THEN v
    ELSE super_fold_with(IF ty[1] = "Param" THEN SetUsed(v, ty[2]) ELSE v, ty)

\* fold_with over a list of types, in order.
FoldTys(v, tys) ==
    IF tys = <<>> THEN v ELSE FoldTys(fold_ty(v, Head(tys)), Tail(tys))

\* -------------------------------------------------------------------- Mir
\* The type-bearing parts of a Mir: the locals' types, the target types of
\* the Rvalue::Cast statements (their operands are locals) and the promoted
\* Mirs.
MkMir(locals, casts, promoted) ==
    [local_decls |-> locals, casts |-> casts, promoted |-> promoted]

\* The types of one Mir apart from its promoted Mirs.
OwnTys(mir) == mir.local_decls \o [k \in 1..Len(mir.casts) |-> mir.casts[k].ty]

RECURSIVE MirTys(_)
RECURSIVE PromotedTys(_)
\* Every type of a Mir in the order mir.fold_with visits them.
MirTys(mir) == PromotedTys(mir.promoted) \o OwnTys(mir)

\* The types of a list of promoted Mirs.
PromotedTys(ps) ==
    IF ps = <<>> THEN <<>> ELSE MirTys(Head(ps)) \o PromotedTys(Tail(ps))

\* mir.fold_with(&mut substs_visitor)
mir_fold_with(v, mir) == FoldTys(v, MirTys(mir))

\* --------------------------------------------------------------- Generics
\* ty::Generics: the function's own params and the generics of its parent
\* (None is <<>>, Some(g) is <<g>>).
ParamDef(index, name) ==
    [index |-> index, name |-> name,
     kind |-> IF name = "'a" THEN "Lifetime" ELSE "Type"]

\* ParamTy::for_def(param_def).is_self()
is_self(param_def) == param_def.name = "Self"

RECURSIVE GenericsChain(_)
\* The params of a Generics and of all its parents, outermost first (the
\* walk of the diagnostic's loop over generics.parent).
GenericsChain(generics) ==
    (IF generics.parent = <<>> THEN <<>> ELSE GenericsChain(generics.parent[1]))
        \o generics.params

\* generics.count(): own and inherited slots.
GenericsCount(generics) == Len(GenericsChain(generics))

\* ---------------------------------------------------------------- Instance
\* Instance { def, substs }; instance.def_id() is .def.
MkInstance(def_id, substs) == [def |-> def_id, substs |-> substs]

\* tcx.lang_items().items(): a list of Option<DefId>.
LangItems == << <<"drop_in_place">>, <<>>, <<"box_free">> >>

\* layout_cx.layout_of(ty).unwrap(): size and align.abi of an argument type.
layout_of(ty) ==
    CASE ty = Int32 -> [size |-> 4, align |-> 4]
      [] ty = Int64 -> [size |-> 8, align |-> 8]
      [] ty[1] = "LayoutOnlyParam" -> [size |-> ty[2], align |-> ty[3]]
      [] OTHER -> [size |-> 0, align |-> 1]

\* The closure with the disabled branch of the Unused arm taken: the
\* argument is kept.
rewrite_subst_keep(used_substs, i, subst) ==
    IF IsTypeKind(subst) /\ used_substs[i + 1] = "LayoutUsed"
    THEN TypeKind(LayoutOnlyParam(layout_of(subst[2]).size, layout_of(subst[2]).align))
    ELSE subst

\* The closure with the Unused arm making the layout-only marker.
rewrite_subst_layout(used_substs, i, subst) ==
    IF IsTypeKind(subst) /\ used_substs[i + 1] # "Used"
    THEN TypeKind(LayoutOnlyParam(layout_of(subst[2]).size, layout_of(subst[2]).align))
    ELSE subst

\* The closure mapped over the substs: what argument i (from 0) becomes.
rewrite_subst(used_substs, i, subst) ==
    IF IsTypeKind(subst)
    THEN CASE used_substs[i + 1] = "Unused" -> TypeKind(UnusedParam)
           [] used_substs[i + 1] = "LayoutUsed" ->
                TypeKind(LayoutOnlyParam(layout_of(subst[2]).size,
                                         layout_of(subst[2]).align))
           [] used_substs[i + 1] = "Used" -> subst
    ELSE subst

\* The map as a filter_map that drops the arguments of Unused slots.
map_substs_filter(used_substs, substs) ==
    SelectSeq([k \in 1..Len(substs) |-> rewrite_subst(used_substs, k - 1, substs[k])],
              LAMBDA subst : subst # TypeKind(UnusedParam))

\* The map collected in reverse.
map_substs_rev(used_substs, substs) ==
    [k \in 1..Len(substs) |->
        rewrite_subst(used_substs, Len(substs) - k, substs[Len(substs) - k + 1])]

\* instance.substs.into_iter().enumerate().map(..).collect()
map_substs(used_substs, substs) ==
    [k \in 1..Len(substs) |-> rewrite_subst(used_substs, k - 1, substs[k])]

RECURSIVE WarnedFrom(_, _, _)
\* The slots the closure warns "Unused subst i" about, from slot k on.
WarnedFrom(used_substs, substs, k) ==
    IF k > Len(substs) THEN <<>>
    ELSE (IF IsTypeKind(substs[k]) /\ used_substs[k] = "Unused"
          THEN <<k - 1>> ELSE <<>>)
         \o WarnedFrom(used_substs, substs, k + 1)

\* The guard without the arm that returns closures.
guard_skips_fn_only(t, inst) ==
    \/ inst.substs = <<>>
    \/ ~t.mir_available
    \/ \E k \in 1..Len(LangItems) : LangItems[k] = <<t.def_id>>

\* The guard: the instance is returned as it came.
guard_skips(t, inst) ==
    \/ inst.substs = <<>>
    \/ ~t.mir_available
    \/ t.ty_kind # "FnDef"
    \/ \E k \in 1..Len(LangItems) : LangItems[k] = <<t.def_id>>

\* The self parameters among the function's own generics.params.
SelfParams(generics) ==
    SelectSeq(generics.params, is_self)

RECURSIVE ForceUsed(_, _)
\* for param_def in &generics.params { if is_self { parameters[index] = Used } }
ForceUsed(v, params) ==
    IF params = <<>> \/ v.ice THEN v
    ELSE ForceUsed(SetUsed(v, Head(params).index), Tail(params))

\* ------------------------------------------------------------- the inputs
\* Names of generic parameters; "'a" is a lifetime, the others are types.
ParamNames == {"Self", "'a", "T"}

\* The parents a function may have: none, a trait (Self) or a generic impl.
ParentShapes == {<<>>, <<"Self">>, <<"T">>}

\* Own parameter lists: Self only first and only without a parent,
\* lifetimes before types.
OwnShapes(parent) ==
    UNION {{own \in [1..n -> ParamNames] :
               /\ \A k \in 1..n : own[k] = "Self" => (k = 1 /\ parent = <<>>)
               /\ \A j, k \in 1..n : (j < k /\ own[j] = "T") => own[k] = "T"}
           : n \in 0..(MaxParams - Len(parent))}

MkGenerics(parent, own) ==
    [parent |-> IF parent = <<>> THEN <<>>
                ELSE << [parent |-> <<>>,
                         params |-> [k \in 1..Len(parent) |-> ParamDef(k - 1, parent[k])]] >>,
     params |-> [k \in 1..Len(own) |-> ParamDef(Len(parent) + k - 1, own[k])]]

AllGenerics ==
    UNION {{MkGenerics(parent, own) : own \in OwnShapes(parent)}
           : parent \in {p \in ParentShapes : Len(p) <= MaxParams}}

\* Concrete argument types and regions of monomorphic instances.
ConcreteTys == {Int32, Int64}
Regions == {"ReErased"}

\* The argument lists of `len` arguments for slots `params`: a lifetime slot
\* takes a region, every other position a concrete type.
SubstsOf(params, len) ==
    {substs \in [1..len -> {TypeKind(ty) : ty \in ConcreteTys}
                              \cup {RegionKind(r) : r \in Regions}] :
        \A k \in 1..len :
            IsTypeKind(substs[k]) <=> ~(k <= Len(params) /\ params[k].kind = "Lifetime")}

\* Wrap a type in k type constructors.
RECURSIVE Nest(_, _)
Nest(k, ty) ==
    IF k = 0 THEN ty
    ELSE IF k % 3 = 1 THEN Ref(Nest(k - 1, ty))
    ELSE IF k % 3 = 2 THEN Tuple(Int32, Nest(k - 1, ty))
    ELSE FnPtr(Nest(k - 1, ty), Unit)

\* The slots of a parameter list that hold types.
TypeSlots(params) == {params[k].index : k \in {j \in 1..Len(params) : params[j].kind = "Type"}}

\* The types a function over `params` may mention, before nesting.
BaseTys(params) ==
    {Int32} \cup {Param(i) : i \in TypeSlots(params)}
            \cup {Tuple(Param(i), Param(j)) : i, j \in TypeSlots(params)}

BodyTys(params) == {Nest(k, ty) : k \in 0..MaxDepth, ty \in BaseTys(params)}

\* Where a function mentions the type.
Positions == {"local", "cast", "promoted", "input", "output"}

EmptySig == [inputs |-> <<>>, output |-> Unit]

\* The Mir of a function that mentions `ty` at `pos`.
MirAt(pos, ty) ==
    CASE pos = "local" -> MkMir(<<Unit, ty>>, <<>>, <<>>)
      [] pos = "cast" -> MkMir(<<Unit, Int32>>, << [operand |-> 2, ty |-> ty] >>, <<>>)
      [] pos = "promoted" -> MkMir(<<Unit>>, <<>>, << MkMir(<<ty>>, <<>>, <<>>) >>)
      [] OTHER -> MkMir(<<Unit>>, <<>>, <<>>)

\* Its signature.
SigAt(pos, ty) ==
    CASE pos = "input" -> [inputs |-> <<Int64, ty>>, output |-> Unit]
      [] pos = "output" -> [inputs |-> <<>>, output |-> ty]
      [] OTHER -> EmptySig

\* What the type context answers about one function.
MkFn(def_id, ty_kind, mir_available, generics, pos, ty) ==
    [def_id |-> def_id, ty_kind |-> ty_kind, mir_available |-> mir_available,
     generics |-> generics, mir |-> MirAt(pos, ty), fn_sig |-> SigAt(pos, ty)]

\* The mentions a function over `generics` may make: none, or one type at
\* one position.
Mentions(generics) ==
    {<<"none", Unit>>} \cup (Positions \X BodyTys(GenericsChain(generics)))

\* Ordinary functions with a body: every position and type.
EligibleFns ==
    UNION {{MkFn("user_fn", "FnDef", TRUE, g, m[1], m[2]) : m \in Mentions(g)}
           : g \in AllGenerics}

\* Functions the guard may skip: lang items, closures, functions without
\* Mir, mentioning nothing or one unnested type in a local.
GuardedFns ==
    UNION {{MkFn(id, kind, avail, g, m[1], m[2]) :
               id \in {"user_fn", "drop_in_place"},
               kind \in {"FnDef", "Closure"},
               avail \in BOOLEAN,
               m \in {mm \in Mentions(g) :
                        mm[1] \in {"none", "local"} /\ mm[2] \in BaseTys(GenericsChain(g)) \cup {Unit}}}
           : g \in AllGenerics}

Functions == EligibleFns \cup GuardedFns

\* ------------------------------------------------------------------ state
VARIABLES
    tcx,        \* what the type context answers about the function
    input,      \* the instance handed to the running call
    instance,   \* the call's `mut instance`
    visitor,    \* the SubstsVisitor of the call: <<>> before it is made
    warned,     \* the slots of the call's "Unused subst" warnings
    pc,         \* where the call is
    prev,       \* the finished call before this one: <<>> or <<record>>
    calls       \* the calls finished so far

vars == <<tcx, input, instance, visitor, warned, pc, prev, calls>>

\* The calls the driver makes for one function.
MaxCalls == 2

\* The state at the entry of a call on `inst`.
Enter(inst) ==
    /\ input' = inst
    /\ instance' = inst
    /\ visitor' = <<>>
    /\ warned' = <<>>
    /\ pc' = "guard"

\* Well-formed instances: one argument per slot.
ExactLen(n) == {n}
\* Ill-formed instances: some arguments too many or too few.
SkewedLen(n) == {len \in (n - MaxSkew)..(n + MaxSkew) : len >= 0 /\ len # n}

\* The first call: a function and an instance of it.
InitCall(skewed) ==
    /\ tcx \in Functions
    /\ \E len \in IF skewed THEN SkewedLen(GenericsCount(tcx.generics))
                           ELSE ExactLen(GenericsCount(tcx.generics)) :
         input \in {MkInstance(tcx.def_id, substs) :
                      substs \in SubstsOf(GenericsChain(tcx.generics), len)}
    /\ instance = input
    /\ visitor = <<>>
    /\ warned = <<>>
    /\ pc = "guard"
    /\ prev = <<>>
    /\ calls = 0

Init == InitCall(FALSE)
InitMalformed == InitCall(TRUE)

\* lines 30-40: the guard returns the instance as it came, or goes on.
Guard ==
    /\ pc = "guard"
    /\ pc' = IF guard_skips(tcx, instance) THEN "done" ELSE "classify"
    /\ UNCHANGED <<tcx, input, instance, visitor, warned, prev, calls>>

\* lines 205-209: the visitor with a table of instance.substs.len() entries.
Classify ==
    /\ pc = "classify"
    /\ visitor' = << new_visitor(instance) >>
    /\ pc' = "mir"
    /\ UNCHANGED <<tcx, input, instance, warned, prev, calls>>

\* One step of the classifier: the visitor becomes v, or the call panics.
Step(v, next) ==
    /\ visitor' = <<v>>
    /\ pc' = IF v.ice THEN "ice" ELSE next
    /\ UNCHANGED <<tcx, input, instance, warned, prev, calls>>

\* line 211
FoldMir ==
    /\ pc = "mir"
    /\ Step(mir_fold_with(visitor[1], tcx.mir), "inputs")

\* lines 212-214
FoldInputs ==
    /\ pc = "inputs"
    /\ Step(FoldTys(visitor[1], tcx.fn_sig.inputs), "self")

\* lines 215-220
ForceSelf ==
    /\ pc = "self"
    /\ Step(ForceUsed(visitor[1], SelfParams(tcx.generics)), "output")

\* line 221
FoldOutput ==
    /\ pc = "output"
    /\ Step(fold_ty(visitor[1], tcx.fn_sig.output), "rewrite")

\* lines 42-98: the substs are rewritten by the table and the instance returned.
Rewrite ==
    /\ pc = "rewrite"
    /\ instance' = [instance EXCEPT
                      !.substs = map_substs(visitor[1].parameters, instance.substs)]
    /\ warned' = WarnedFrom(visitor[1].parameters, instance.substs, 1)
    /\ pc' = "done"
    /\ UNCHANGED <<tcx, input, visitor, prev, calls>>

\* The driver hands over another instance of the function: the instance the
\* call before returned, or one with other arguments.
NextCall ==
    /\ pc = "done"
    /\ calls + 1 < MaxCalls
    /\ prev' = << [input |-> input, output |-> instance,
                   visitor |-> visitor, warned |-> warned] >>
    /\ calls' = calls + 1
    /\ \E inst \in {instance} \cup
                   {MkInstance(tcx.def_id, substs) :
                      substs \in SubstsOf(GenericsChain(tcx.generics), Len(input.substs))} :
         Enter(inst)
    /\ UNCHANGED tcx

Next ==
    \/ Guard
    \/ Classify
    \/ FoldMir
    \/ FoldInputs
    \/ ForceSelf
    \/ FoldOutput
    \/ Rewrite
    \/ NextCall

Spec == Init /\ [][Next]_vars
SpecMalformed == InitMalformed /\ [][Next]_vars

\* ----------------------------------------------------------------- claims
\* The call passed the guard and has returned its rewritten instance.
Rewritten == pc = "done" /\ visitor # <<>>

\* The table the classifier returned.
Table == visitor[1].parameters

\* The layout-only marker of an argument.
LayoutMarker(subst) ==
    TypeKind(LayoutOnlyParam(layout_of(subst[2]).size, layout_of(subst[2]).align))

\* Every type the classifier is given: the body's, then the signature's.
AllTys(t) == MirTys(t.mir) \o t.fn_sig.inputs \o <<t.fn_sig.output>>

\* The slots mentioned by a bare parameter reference in body or signature.
Mentioned(t) == UNION {ParamsIn(AllTys(t)[k]) : k \in 1..Len(AllTys(t))}

\* The slots the generics, own or inherited, mark as the receiver.
SelfSlots(t) ==
    {GenericsChain(t.generics)[k].index :
        k \in {j \in 1..Len(GenericsChain(t.generics)) : is_self(GenericsChain(t.generics)[j])}}

\* C1: an instance that passed the guard is returned with argument i
\* rewritten by table entry i alone: a type argument is kept when the entry
\* is Used, is the unused marker when it is Unused, is the layout-only marker
\* of the argument's size and alignment when it is LayoutUsed; an argument
\* that is not a type is kept whatever the entry.
C1_RewriteByEntry ==
    Rewritten =>
        /\ Len(instance.substs) = Len(input.substs)
        /\ Len(Table) = Len(input.substs)
        /\ \A k \in 1..Len(input.substs) :
              IF IsTypeKind(input.substs[k])
              THEN /\ Table[k] = "Used" => instance.substs[k] = input.substs[k]
                   /\ Table[k] = "Unused" => instance.substs[k] = TypeKind(UnusedParam)
                   /\ Table[k] = "LayoutUsed" =>
                         instance.substs[k] = LayoutMarker(input.substs[k])
              ELSE instance.substs[k] = input.substs[k]

\* C1 witness: a returned instance with one concrete type argument erased in
\* an Unused slot and another kept in a Used slot.
C1_Witness ==
    /\ Rewritten
    /\ \E j, k \in 1..Len(input.substs) :
          /\ IsTypeKind(input.substs[j]) /\ input.substs[j][2] \in ConcreteTys
          /\ Table[j] = "Unused"
          /\ instance.substs[j] = TypeKind(UnusedParam)
          /\ IsTypeKind(input.substs[k]) /\ input.substs[k][2] \in ConcreteTys
          /\ Table[k] = "Used"
          /\ instance.substs[k] = input.substs[k]

\* The slots at which two argument lists of one length differ.
Differing(a, b) == {k \in 1..Len(a) : a[k] # b[k]}

\* Both this call and the one before passed the guard and returned.
BothRewritten == Rewritten /\ prev # <<>> /\ prev[1].visitor # <<>>

\* The two calls' inputs differ only at type slots the table has Unused.
DifferOnlyUnused ==
    /\ Len(prev[1].input.substs) = Len(input.substs)
    /\ \A k \in Differing(prev[1].input.substs, input.substs) :
          /\ IsTypeKind(prev[1].input.substs[k])
          /\ IsTypeKind(input.substs[k])
          /\ Table[k] = "Unused"

\* C2: two instances of one function that passed the guard and differ only
\* at type slots the table has Unused are returned as the same instance, with
\* the unused marker in each such slot.
C2_UnusedCollapses ==
    (BothRewritten /\ DifferOnlyUnused) =>
        /\ instance = prev[1].output
        /\ \A k \in Differing(prev[1].input.substs, input.substs) :
              instance.substs[k] = TypeKind(UnusedParam)

\* C2 witness: two calls on instances with different concrete arguments
\* returned the same instance.
C2_Witness ==
    /\ BothRewritten
    /\ DifferOnlyUnused
    /\ Differing(prev[1].input.substs, input.substs) # {}
    /\ \A k \in 1..Len(input.substs) :
          IsTypeKind(input.substs[k]) =>
              /\ input.substs[k][2] \in ConcreteTys
              /\ prev[1].input.substs[k][2] \in ConcreteTys
    /\ instance = prev[1].output

\* The skip conditions as the claims state them: no arguments, no body, a
\* function of the lang-item registry, or a type that is no named function.
Ineligible ==
    \/ Len(input.substs) = 0
    \/ tcx.mir_available = FALSE
    \/ <<tcx.def_id>> \in {LangItems[k] : k \in 1..Len(LangItems)}
    \/ tcx.ty_kind = "Closure"

\* C3: while a call runs on an instance the guard skips, the instance is the
\* input, no visitor is made and nothing is warned, and the call goes from
\* the guard straight to its return.
C3_GuardSkipsUnchanged ==
    Ineligible =>
        /\ pc \in {"guard", "done"}
        /\ instance = input
        /\ visitor = <<>>
        /\ warned = <<>>

\* C3 witness: a call has returned a closure's instance whose type argument
\* the body does not mention.
C3_Witness ==
    /\ pc = "done"
    /\ tcx.ty_kind = "Closure" /\ tcx.mir_available /\ tcx.def_id = "user_fn"
    /\ \E k \in 1..Len(input.substs) :
          IsTypeKind(input.substs[k]) /\ (k - 1) \notin Mentioned(tcx)
    /\ instance = input

\* C4: once the classifier is past the receiver forcing, every slot the
\* generics, own or inherited, mark as the receiver is Used, and the returned
\* instance keeps that slot's argument.
C4_ReceiverUsed ==
    (visitor # <<>> /\ pc \in {"output", "rewrite", "done"}) =>
        \A i \in SelfSlots(tcx) :
            (i + 1) \in DOMAIN Table =>
                /\ Table[i + 1] = "Used"
                /\ pc = "done" => instance.substs[i + 1] = input.substs[i + 1]

\* C5: in the table the classifier returns, every slot mentioned by a bare
\* parameter reference in the body (promoted bodies and cast types included)
\* or the signature, at any depth, is Used.
C5_MentionedIsUsed ==
    (visitor # <<>> /\ pc \in {"rewrite", "done"}) =>
        \A i \in Mentioned(tcx) : (i + 1) \in DOMAIN Table /\ Table[i + 1] = "Used"

\* C5 witness: the table is returned for a function that mentions a
\* parameter only inside another type.
C5_Witness ==
    /\ visitor # <<>> /\ pc = "rewrite"
    /\ \E k \in 1..Len(AllTys(tcx)) :
          /\ AllTys(tcx)[k][1] \in {"Ref", "Tuple", "FnPtr"}
          /\ ParamsIn(AllTys(tcx)[k]) # {}
          /\ \A i \in ParamsIn(AllTys(tcx)[k]) : Table[i + 1] = "Used"
    /\ \E j \in 1..Len(Table) : Table[j] = "Unused"

\* C6: every returned instance, skipped or rewritten, has the input's
\* function and as many arguments, and argument i is the input's argument i
\* or an erasure marker made from it.
C6_SameFunctionSameSlots ==
    pc = "done" =>
        /\ instance.def = input.def
        /\ Len(instance.substs) = Len(input.substs)
        /\ \A k \in 1..Len(input.substs) :
              \/ instance.substs[k] = input.substs[k]
              \/ /\ IsTypeKind(input.substs[k])
                 /\ instance.substs[k] \in {TypeKind(UnusedParam), LayoutMarker(input.substs[k])}

\* C6 witness: an instance of two arguments was returned with one erased and
\* one kept.
C6_Witness ==
    /\ Rewritten
    /\ Len(input.substs) >= 2
    /\ \E j, k \in 1..Len(input.substs) :
          /\ instance.substs[j] # input.substs[j]
          /\ instance.substs[k] = input.substs[k]

\* C7: the canonicalizer run on an instance it returned returns that
\* instance again.
C7_Idempotent ==
    (pc = "done" /\ prev # <<>> /\ input = prev[1].output) =>
        /\ instance = input
        /\ visitor = prev[1].visitor

\* C7 witness: an instance with an erased and a kept argument was handed
\* back to the canonicalizer, which returned it.
C7_Witness ==
    /\ BothRewritten
    /\ input = prev[1].output
    /\ prev[1].output # prev[1].input
    /\ \E k \in 1..Len(input.substs) : Table[k] = "Used"
    /\ instance = input

C9_MismatchIsFatal ==
    (Len(input.substs) # GenericsCount(tcx.generics) /\ ~Ineligible) =>
        pc \notin {"rewrite", "done"}

\* The table's entries are Unused or Used.
TwoLevels == visitor # <<>> => \A k \in 1..Len(Table) : Table[k] \in {"Unused", "Used"}

\* A returned instance has a layout-only marker only where the input had it.
NoNewLayoutMarker ==
    pc = "done" =>
        \A k \in 1..Len(instance.substs) :
            (IsTypeKind(instance.substs[k]) /\ instance.substs[k][2][1] = "LayoutOnlyParam")
                => instance.substs[k] = input.substs[k]

\* Within a call an entry that is Used stays Used.
StaysUsed ==
    (visitor # <<>> /\ visitor' # <<>>) =>
        \A k \in 1..Len(Table) :
            Table[k] = "Used" =>
                (k \in DOMAIN visitor'[1].parameters /\ visitor'[1].parameters[k] = "Used")

\* C10: from the table's creation to the call's return every entry is Unused
\* or Used, an entry once Used stays Used, and no returned instance holds a
\* layout-only marker the input did not hold.
C10_NeverLayoutUsed ==
    /\ [](TwoLevels /\ NoNewLayoutMarker)
    /\ [][StaysUsed]_vars

\* C10 witness: the classifier is between the fold of the signature's inputs
\* and the receiver forcing with one entry Used and one still Unused.
C10_Witness ==
    /\ pc = "self" /\ visitor # <<>>
    /\ \E j, k \in 1..Len(Table) : Table[j] = "Used" /\ Table[k] = "Unused"

====
